---- MODULE Spec2Model ----
(***************************************************************************)
(* Model of drops-game (src/src/main.rs): the Monte Carlo kill loop         *)
(* simulate_strategy, the four Strategy implementations, and the greedy     *)
(* threshold search of main with its parallel sweep.                        *)
(*                                                                          *)
(* Probabilities (base_drop_rate, counter_multiplier, drop_chance and the   *)
(* roll) are f64 in the source.  They are modelled exactly as integers in   *)
(* units of 1/Den: a roll r in 0..Den-1 stands for r/Den in [0,1), and a    *)
(* rate x stands for x/Den.  drop_chance = base + mult * counter is then    *)
(* an integer in the same unit and the strict comparison is unchanged.      *)
(*                                                                          *)
(* Two specifications share the module:                                     *)
(*   SimSpec  one call of simulate_strategy, one action per loop iteration  *)
(*   Spec     main: sweeps of parallel tasks, selection, halt or toggle     *)
(***************************************************************************)
EXTENDS Integers, Sequences, FiniteSets

\* ---------------------------------------------------------------- bounds
Den == 2                \* resolution of probabilities: unit is 1/Den
MaxRate == 1            \* rates range over -MaxRate..MaxRate (units of 1/Den)
MaxCounterValue == 3    \* SimSpec: max_counter_value in 0..MaxCounterValue
MaxSimSteps == 10       \* SimSpec: sim_steps_per_strategy in 0..MaxSimSteps
MaxThreshold == 1       \* SimSpec: threshold values of strategies in 0..MaxThreshold
MaxLen == 2             \* SimSpec: length of the Xor strategies' vectors
OptMaxCounterValue == 2 \* Spec: max_counter_value in 0..OptMaxCounterValue
OptSimSteps == 1        \* Spec: sim_steps_per_strategy in 0..OptSimSteps
NumWorkers == 2         \* RngSpec: worker threads of the pool

Rolls == 0..(Den - 1)
Rates == (0 - MaxRate)..MaxRate
\* Spec: the pairs <<base_drop_rate, counter_multiplier>> of the search runs,
\* a plain base chance and a chance that only an active counter gives (the
\* search reads the rates only through the drop counts the simulations return)
OptRates == {<<1, 0>>, <<0, 1>>}

VARIABLES
    args,        \* Args: base_drop_rate, counter_multiplier, max_counter_value, sim_steps_per_strategy
    \* ---- simulate_strategy (SimSpec)
    strategy,    \* the &impl Strategy argument
    counter,     \* let mut counter
    drops,       \* let mut drops
    step,        \* number of completed iterations of the for loop
    sim_pc,      \* "loop" while iterating, "returned" after line 59
    max_roll,    \* ghost: largest roll drawn so far (0 when none was drawn)
    \* ---- main (Spec)
    thresholds,  \* let mut thresholds
    first_round, \* ghost: TRUE until the first toggle has been applied
    pc,          \* position of the main thread
    task_pc,     \* per strategy_index: position of the closure of the parallel map
    my_thresholds,            \* per task: the closure's my_thresholds
    task_drops,               \* per task: the closure's drops
    strategy_finish_counter,  \* AtomicUsize
    notified,                 \* sequence of "finished k/N" values printed in this sweep
    results,                  \* the collected vector, indexed 0..num_strategies-1
    max_strategy, max_drops,  \* the selection of lines 142-146
    final_results,            \* the value of the loop expression (break results)
    \* ---- the pool's threads and their generators (RngSpec)
    worker_task,  \* per worker thread: the item its closure is running, or NoTask
    rng_drawn,    \* per generator: how many values have been drawn from it
    task_rng      \* per task: the generator thread_rng() handed it and the
                  \* segment of that generator's stream its rolls came from

simvars == <<strategy, counter, drops, step, sim_pc, max_roll>>
optvars == <<thresholds, first_round, pc, task_pc, my_thresholds, task_drops,
             strategy_finish_counter, notified, results, max_strategy,
             max_drops, final_results>>
rngvars == <<worker_task, rng_drawn, task_rng>>
vars == <<args, simvars, optvars, rngvars>>

\* ------------------------------------------------------------- strategies
SeqToSet(s) == {s[i] : i \in 1..Len(s)}

\* the filter of line 80 with a non-strict comparison
CountGreaterOrEqual(ts, c) == Cardinality({i \in 1..Len(ts) : c >= ts[i]})

\* the filter of line 80 with the comparison of line 88
CountGreaterFlipped(ts, c) == Cardinality({i \in 1..Len(ts) : c < ts[i]})

\* iter().filter(pred).count(): counts positions, so duplicates count twice
CountGreater(ts, c) == Cardinality({i \in 1..Len(ts) : c > ts[i]})
CountLess(ts, c) == Cardinality({i \in 1..Len(ts) : c < ts[i]})

NaiveThreshold(t) == [kind |-> "NaiveThreshold", t |-> t, ts |-> <<>>]
NaiveInverseThreshold(t) == [kind |-> "NaiveInverseThreshold", t |-> t, ts |-> <<>>]
XorInverseThresholds(ts) == [kind |-> "XorInverseThresholds", t |-> 0, ts |-> ts]
XorThresholds(ts) == [kind |-> "XorThresholds", t |-> 0, ts |-> ts]

decide(s, c) ==
    CASE s.kind = "NaiveThreshold" -> c > s.t
      [] s.kind = "NaiveInverseThreshold" -> c < s.t
      [] s.kind = "XorInverseThresholds" -> CountGreater(s.ts, c) % 2 = 0
      [] s.kind = "XorThresholds" -> CountLess(s.ts, c) % 2 = 0

\* ------------------------------------------------------ simulate_strategy
\* pity test of line 35
PityReachedStrict(c, a) == c > a.max_counter_value

PityReached(c, a) == c >= a.max_counter_value

\* lines 43-47
drop_chance_no_base(a, active, c) ==
    IF active THEN a.counter_multiplier * c
    ELSE a.base_drop_rate

drop_chance(a, active, c) ==
    IF active THEN a.base_drop_rate + a.counter_multiplier * c
    ELSE a.base_drop_rate

\* a roll that also hits when it equals the chance
RollHitsInclusive(roll, chance) == roll <= chance

\* line 50: drop_roll < drop_chance
RollHits(roll, chance) == roll < chance

\* the iteration that resets the counter on every random drop, active or not
KillStepAlwaysReset(a, s, st, roll) ==
    LET counter_active == decide(s, st.counter)
        c1 == st.counter + 1
    IN  IF PityReached(c1, a)
        THEN [counter |-> 0, drops |-> st.drops + 1, rolled |-> FALSE]
        ELSE IF RollHits(roll, drop_chance(a, counter_active, c1))
             THEN [counter |-> 0, drops |-> st.drops + 1, rolled |-> TRUE]
             ELSE [counter |-> c1, drops |-> st.drops, rolled |-> TRUE]

\* the iteration without the `continue` of line 39: the pity drop falls
\* through to the random roll
KillStepNoContinue(a, s, st, roll) ==
    LET counter_active == decide(s, st.counter)
        c1 == st.counter + 1
        pity == PityReached(c1, a)
        c2 == IF pity THEN 0 ELSE c1
        d2 == IF pity THEN st.drops + 1 ELSE st.drops
    IN  IF RollHits(roll, drop_chance(a, counter_active, c2))
        THEN [counter |-> IF counter_active THEN 0 ELSE c2,
              drops |-> d2 + 1, rolled |-> TRUE]
        ELSE [counter |-> c2, drops |-> d2, rolled |-> TRUE]

\* One iteration of the for loop (lines 30-56) on the pair (counter, drops);
\* roll is the value rng.gen() returns if the iteration draws one.
KillStep(a, s, st, roll) ==
    LET counter_active == decide(s, st.counter)
        c1 == st.counter + 1
    IN  IF PityReached(c1, a)
        THEN [counter |-> 0, drops |-> st.drops + 1, rolled |-> FALSE]
        ELSE IF RollHits(roll, drop_chance(a, counter_active, c1))
             THEN [counter |-> IF counter_active THEN 0 ELSE c1,
                   drops |-> st.drops + 1, rolled |-> TRUE]
             ELSE [counter |-> c1, drops |-> st.drops, rolled |-> TRUE]

RECURSIVE SimLoop(_, _, _, _, _)
SimLoop(a, s, st, rolls, k) ==
    IF k > a.sim_steps_per_strategy THEN st.drops
    ELSE SimLoop(a, s, KillStep(a, s, st, rolls[k]), rolls, k + 1)

\* the whole call, given the rolls the generator would return per iteration
simulate_strategy(a, s, rolls) ==
    SimLoop(a, s, [counter |-> 0, drops |-> 0, rolled |-> FALSE], rolls, 1)

\* the number of values the call draws from its generator (line 49): one per
\* iteration that is not a pity drop
RECURSIVE DrawLoop(_, _, _, _, _, _)
DrawLoop(a, s, st, rolls, k, n) ==
    IF k > a.sim_steps_per_strategy THEN n
    ELSE LET nxt == KillStep(a, s, st, rolls[k])
         IN  DrawLoop(a, s, nxt, rolls, k + 1, IF nxt.rolled THEN n + 1 ELSE n)

sim_draws(a, s, rolls) ==
    DrawLoop(a, s, [counter |-> 0, drops |-> 0, rolled |-> FALSE], rolls, 1, 0)

RECURSIVE SeqsUpTo(_, _)
SeqsUpTo(S, n) ==
    IF n = 0 THEN {<<>>}
    ELSE LET shorter == SeqsUpTo(S, n - 1)
         IN  shorter \cup {Append(q, x) : q \in shorter, x \in S}

Strategies ==
    {NaiveThreshold(t) : t \in 0..MaxThreshold}
    \cup {NaiveInverseThreshold(t) : t \in 0..MaxThreshold}
    \cup {XorInverseThresholds(ts) : ts \in SeqsUpTo(0..MaxThreshold, MaxLen)}
    \cup {XorThresholds(ts) : ts \in SeqsUpTo(0..MaxThreshold, MaxLen)}

ArgsOf(b, m, mc, n) ==
    [base_drop_rate |-> b, counter_multiplier |-> m,
     max_counter_value |-> mc, sim_steps_per_strategy |-> n]

\* the pool's variables while the threads are not studied
RngIdle == worker_task = <<>> /\ rng_drawn = <<>> /\ task_rng = <<>>

\* the variables of main while only simulate_strategy is studied
OptIdle ==
    /\ thresholds = <<>> /\ first_round = TRUE /\ pc = "idle"
    /\ task_pc = <<>> /\ my_thresholds = <<>> /\ task_drops = <<>>
    /\ strategy_finish_counter = 0 /\ notified = <<>> /\ results = <<>>
    /\ max_strategy = 0 /\ max_drops = 0 /\ final_results = <<>>

SimInit ==
    /\ args \in {ArgsOf(b, m, mc, n) : b \in Rates, m \in Rates,
                 mc \in 0..MaxCounterValue, n \in 0..MaxSimSteps}
    /\ strategy \in Strategies
    /\ counter = 0
    /\ drops = 0
    /\ step = 0
    /\ sim_pc = "loop"
    /\ max_roll = 0
    /\ OptIdle
    /\ RngIdle

\* one iteration of `for _ in 0..args.sim_steps_per_strategy`
KillIteration ==
    /\ sim_pc = "loop"
    /\ step < args.sim_steps_per_strategy
    /\ \E roll \in Rolls :
         LET nxt == KillStep(args, strategy, [counter |-> counter, drops |-> drops], roll)
         IN  /\ counter' = nxt.counter
             /\ drops' = nxt.drops
             /\ max_roll' = IF nxt.rolled /\ roll > max_roll THEN roll ELSE max_roll
    /\ step' = step + 1
    /\ UNCHANGED <<args, strategy, sim_pc, optvars, rngvars>>

\* loop exhausted: `drops` is returned (line 59)
SimReturn ==
    /\ sim_pc = "loop"
    /\ step = args.sim_steps_per_strategy
    /\ sim_pc' = "returned"
    /\ UNCHANGED <<args, strategy, counter, drops, step, max_roll, optvars, rngvars>>

SimNext == KillIteration \/ SimReturn

SimSpec == SimInit /\ [][SimNext]_vars

\* ------------------------------------------------- claims on the kill loop
\* C1 (bounded yield): after k iterations 0 <= drops <= k, and the value
\* simulate_strategy returns lies in 0..sim_steps_per_strategy.
BoundedYield ==
    /\ 0 <= drops
    /\ drops <= step
    /\ step <= args.sim_steps_per_strategy
    /\ (sim_pc = "returned" => drops <= args.sim_steps_per_strategy)

\* the bound is attained by a run that drew rolls and also by shorter yields
BoundedYieldWitness ==
    /\ sim_pc = "returned"
    /\ args.sim_steps_per_strategy = 4
    /\ args.max_counter_value = 3
    /\ drops = 4
    /\ max_roll > 0

\* C2 (zero-chance pity-only): with base_drop_rate = 0, counter_multiplier = 0
\* and max_counter_value M >= 1, after k iterations drops = floor(k / M), so
\* the call returns floor(S / M).
ZeroChancePityOnly ==
    (args.base_drop_rate = 0 /\ args.counter_multiplier = 0
        /\ args.max_counter_value >= 1)
    => /\ drops = step \div args.max_counter_value
       /\ counter = step % args.max_counter_value

\* the literal case M = 3, S = 10 -> 3 drops
ZeroChancePityOnlyWitness ==
    /\ sim_pc = "returned"
    /\ args.base_drop_rate = 0 /\ args.counter_multiplier = 0
    /\ args.max_counter_value = 3
    /\ args.sim_steps_per_strategy = 10
    /\ drops = 3

\* C3 as stated (guaranteed-roll saturation for any counter_multiplier):
\* with base_drop_rate > 0 and every roll drawn equal to 0, every iteration
\* yields a drop.
GuaranteedRollSaturationAnyMultiplier ==
    (args.base_drop_rate > 0 /\ max_roll = 0) => drops = step

\* C3 amended: the same, for counter_multiplier >= 0.
GuaranteedRollSaturation ==
    (args.base_drop_rate > 0 /\ args.counter_multiplier >= 0 /\ max_roll = 0)
    => drops = step

\* a run that drew at least two rolls of 0 on the roll path and returned S
GuaranteedRollSaturationWitness ==
    /\ sim_pc = "returned"
    /\ args.base_drop_rate > 0 /\ args.counter_multiplier >= 0
    /\ max_roll = 0
    /\ args.max_counter_value = 3
    /\ args.sim_steps_per_strategy = 5
    /\ strategy = NaiveThreshold(0)
    /\ drops = 5

\* C11 (strategy decision tables): NaiveThreshold(t) is active iff c > t,
\* NaiveInverseThreshold(t) iff c < t, XorThresholds(ts) iff an even number of
\* elements e of ts has c < e, XorInverseThresholds(ts) iff an even number has
\* c > e; for ts = [a, b] with a < b the latter is active for c <= a, inactive
\* for a < c <= b and active for c > b, as for [541, 950] over 0..=1000.
RECURSIVE NumBelow(_, _)
NumBelow(ts, c) ==
    IF ts = <<>> THEN 0
    ELSE (IF Head(ts) < c THEN 1 ELSE 0) + NumBelow(Tail(ts), c)

RECURSIVE NumAbove(_, _)
NumAbove(ts, c) ==
    IF ts = <<>> THEN 0
    ELSE (IF Head(ts) > c THEN 1 ELSE 0) + NumAbove(Tail(ts), c)

Even(n) == n % 2 = 0

TableOf(s, c) ==
    CASE s.kind = "NaiveThreshold" -> c > s.t
      [] s.kind = "NaiveInverseThreshold" -> c < s.t
      [] s.kind = "XorThresholds" -> Even(NumAbove(s.ts, c))
      [] s.kind = "XorInverseThresholds" ->
            /\ Even(NumBelow(s.ts, c))
            /\ (Len(s.ts) = 2 /\ s.ts[1] < s.ts[2]) =>
                   (c <= s.ts[1] \/ c > s.ts[2])

LiteralTables ==
    /\ decide(NaiveThreshold(5), 3) = FALSE
    /\ decide(NaiveThreshold(5), 6) = TRUE
    /\ decide(XorThresholds(<<3, 7>>), 5) = FALSE
    /\ \A c \in 0..1000 :
         decide(XorInverseThresholds(<<541, 950>>), c) = (c <= 541 \/ c > 950)

StrategyDecisionTables ==
    /\ decide(strategy, counter) = TableOf(strategy, counter)
    /\ step = 0 =>
         \A c \in 0..(MaxThreshold + 2) : decide(strategy, c) = TableOf(strategy, c)
    /\ LiteralTables

\* the two-threshold strategy was asked at a counter between its thresholds
\* and left the counter running
StrategyDecisionWitness ==
    /\ strategy = XorInverseThresholds(<<0, 1>>)
    /\ args.max_counter_value = 3
    /\ step = 2
    /\ counter = 2
    /\ drops = 1
    /\ ~decide(strategy, 1)

\* the decision and the outcome of the iteration that would run next
NextActive == decide(strategy, counter)
NextNonPity == counter + 1 < args.max_counter_value
NextChance == drop_chance(args, NextActive, counter + 1)
NextOutcome(roll) ==
    KillStep(args, strategy, [counter |-> counter, drops |-> drops], roll)

\* C14 (reset asymmetry): in a non-pity iteration a roll below drop_chance
\* adds exactly one drop and resets the counter iff the decision taken on the
\* counter before the kill was active; otherwise the counter keeps its
\* incremented value; a roll not below drop_chance leaves drops and the
\* incremented counter unchanged.
ResetAsymmetry ==
    NextNonPity =>
        \A roll \in Rolls :
            LET nxt == NextOutcome(roll)
            IN  IF roll < NextChance
                THEN /\ nxt.drops = drops + 1
                     /\ (nxt.counter = 0) <=> NextActive
                     /\ ~NextActive => nxt.counter = counter + 1
                ELSE /\ nxt.drops = drops
                     /\ nxt.counter = counter + 1

\* a random drop under an inactive decision: the counter kept running
ResetAsymmetryWitness ==
    /\ strategy = NaiveThreshold(0)
    /\ args.max_counter_value = 3
    /\ args.base_drop_rate = 1
    /\ step = 1
    /\ drops = 1
    /\ counter = 1

\* C15 (out-of-range drop chance): in a non-pity iteration a drop_chance of 1
\* or more (Den units) yields a drop for every roll and a drop_chance of 0 or
\* less yields none; there is no clamping and no error state, and the call
\* returns only after all sim_steps_per_strategy iterations.
SaturatingDropChance ==
    /\ NextNonPity =>
         \A roll \in Rolls :
            /\ NextChance >= Den => NextOutcome(roll).drops = drops + 1
            /\ NextChance <= 0 => NextOutcome(roll).drops = drops
    /\ sim_pc \in {"loop", "returned"}
    /\ sim_pc = "returned" => step = args.sim_steps_per_strategy

\* a drop_chance above 1 met the largest roll and dropped; the run completed
SaturatingDropChanceWitness ==
    /\ sim_pc = "returned"
    /\ strategy = XorInverseThresholds(<<>>)
    /\ args.base_drop_rate = 1 /\ args.counter_multiplier = 1
    /\ args.max_counter_value = 3
    /\ args.sim_steps_per_strategy = 2
    /\ max_roll = Den - 1
    /\ drops = 2

\* C19 (counter range): for max_counter_value M >= 1 the counter is in
\* 0..M-1 whenever decide is called, so M is never seen by decide and the
\* counter used in drop_chance is at most M-1.
CounterRange ==
    args.max_counter_value >= 1 =>
        /\ 0 <= counter
        /\ counter <= args.max_counter_value - 1
        /\ NextNonPity => counter + 1 <= args.max_counter_value - 1

\* the counter at its largest value, one kill before the pity drop
CounterRangeWitness ==
    /\ sim_pc = "loop"
    /\ args.max_counter_value = 3
    /\ counter = 2
    /\ step = 2
    /\ drops = 0

\* ------------------------------------------------------------------- main
NoResult == 0 - 1       \* a slot of the collected vector not yet written

num_strategies(a) == a.max_counter_value + 1
StrategyIndices(a) == 0..(num_strategies(a) - 1)

\* lines 126-127: the clone with the trial index pushed, instead pushing the
\* index only when it is absent
CandidateThresholdsUnion(ts, strategy_index) ==
    IF strategy_index \in SeqToSet(ts) THEN ts ELSE Append(ts, strategy_index)

\* lines 126-127: my_thresholds = thresholds.clone(); my_thresholds.push(strategy_index)
CandidateThresholds(ts, strategy_index) == Append(ts, strategy_index)

\* the slot taken from the completion order instead of the item's index
ResultSlotByCompletion(strategy_index, finish_value) == finish_value

\* the indexed collect of lines 123-139 puts the value the closure returns
\* for item strategy_index at position strategy_index
ResultSlot(strategy_index, finish_value) == strategy_index

\* collect returning as soon as one task has finished
SweepJoinedAny(tp) == \E i \in DOMAIN tp : tp[i] = "done"

\* collect (line 139) returns when every item of the parallel map is done
SweepJoined(tp) == \A i \in DOMAIN tp : tp[i] = "done"

\* a comparison that keeps the earlier element on a tie
KeepCurrentOnTie(x, y) == x >= y

\* Iterator::max_by_key (line 145) folds keeping the current element only
\* when its key is strictly greater than the next one's: the last maximum wins
KeepCurrent(x, y) == x > y

RECURSIVE MaxByKeyFrom(_, _, _)
MaxByKeyFrom(res, i, best) ==
    IF i \notin DOMAIN res THEN best
    ELSE MaxByKeyFrom(res, i + 1, IF KeepCurrent(res[best], res[i]) THEN best ELSE i)

\* lines 142-146: results.iter().enumerate().max_by_key(|(_, &d)| d)
max_by_key(res) == MaxByKeyFrom(res, 1, 0)

\* a halt test against the first index instead of the last
IsSentinelFirstIndex(ms, a) == ms = 0

\* a halt test that is off by one
IsSentinelOffByOne(ms, a) == ms = num_strategies(a)

\* line 148: max_strategy == num_strategies - 1
IsSentinel(ms, a) == ms = num_strategies(a) - 1

\* a retain with the predicate inverted
RetainInverted(ts, x) == SelectSeq(ts, LAMBDA e : e = x)

\* thresholds.retain(|&x| x != max_strategy)
Retain(ts, x) == SelectSeq(ts, LAMBDA e : e # x)

\* a toggle that forgets the contains test
ToggleAlwaysPush(ts, x) == Append(ts, x)

\* lines 155-159
Toggle(ts, x) ==
    IF x \in SeqToSet(ts) THEN Retain(ts, x) ELSE Append(ts, x)

\* an increment that is lost
FetchAddLost(v) == v

\* line 129: the value fetch_add(1, SeqCst) leaves in the counter
FetchAdd(v) == v + 1

\* the variables of simulate_strategy while main is studied: each task's call
\* is evaluated by the operator simulate_strategy
SimIdle ==
    /\ strategy = XorInverseThresholds(<<>>)
    /\ counter = 0 /\ drops = 0 /\ step = 0
    /\ sim_pc = "idle" /\ max_roll = 0

\* the state of a fresh loop iteration (lines 116-121)
SweepStart(a) ==
    /\ task_pc' = [i \in StrategyIndices(a) |-> "idle"]
    /\ my_thresholds' = [i \in StrategyIndices(a) |-> <<>>]
    /\ task_drops' = [i \in StrategyIndices(a) |-> 0]
    /\ results' = [i \in StrategyIndices(a) |-> NoResult]
    /\ strategy_finish_counter' = 0
    /\ notified' = <<>>

MainInit ==
    /\ args \in {ArgsOf(r[1], r[2], mc, n) : r \in OptRates,
                 mc \in 0..OptMaxCounterValue, n \in 0..OptSimSteps}
    /\ SimIdle
    /\ thresholds = <<>>
    /\ first_round = TRUE
    /\ pc = "sweep"
    /\ task_pc = [i \in StrategyIndices(args) |-> "idle"]
    /\ my_thresholds = [i \in StrategyIndices(args) |-> <<>>]
    /\ task_drops = [i \in StrategyIndices(args) |-> 0]
    /\ results = [i \in StrategyIndices(args) |-> NoResult]
    /\ strategy_finish_counter = 0
    /\ notified = <<>>
    /\ max_strategy = 0
    /\ max_drops = 0
    /\ final_results = <<>>

Init == MainInit /\ RngIdle

\* lines 126-128: the closure for item i builds its candidate and simulates it
RunTask(i) ==
    /\ pc = "sweep"
    /\ task_pc[i] = "idle"
    /\ LET mine == CandidateThresholds(thresholds, i)
       IN  /\ my_thresholds' = [my_thresholds EXCEPT ![i] = mine]
           /\ \E rolls \in [1..args.sim_steps_per_strategy -> Rolls] :
                task_drops' = [task_drops EXCEPT ![i] =
                    simulate_strategy(args, XorInverseThresholds(mine), rolls)]
    /\ task_pc' = [task_pc EXCEPT ![i] = "simulated"]
    /\ UNCHANGED <<args, simvars, rngvars, thresholds, first_round, pc, strategy_finish_counter,
                   notified, results, max_strategy, max_drops, final_results>>

\* lines 129-137: fetch_add, the progress line, and the value handed to collect
FinishTask(i) ==
    /\ pc = "sweep"
    /\ task_pc[i] = "simulated"
    /\ LET strategy_finish_counter_value == strategy_finish_counter
       IN  /\ strategy_finish_counter' = FetchAdd(strategy_finish_counter)
           /\ notified' = Append(notified, strategy_finish_counter_value + 1)
           /\ results' = [results EXCEPT
                  ![ResultSlot(i, strategy_finish_counter_value)] = task_drops[i]]
    /\ task_pc' = [task_pc EXCEPT ![i] = "done"]
    /\ UNCHANGED <<args, simvars, rngvars, thresholds, first_round, pc, my_thresholds, task_drops,
                   max_strategy, max_drops, final_results>>

\* line 139: collect returns to the main thread
Collect ==
    /\ pc = "sweep"
    /\ SweepJoined(task_pc)
    /\ pc' = "select"
    /\ UNCHANGED <<args, simvars, rngvars, thresholds, first_round, task_pc, my_thresholds,
                   task_drops, strategy_finish_counter, notified, results,
                   max_strategy, max_drops, final_results>>

\* lines 142-146
Select ==
    /\ pc = "select"
    /\ max_strategy' = max_by_key(results)
    /\ max_drops' = results[max_by_key(results)]
    /\ pc' = "check"
    /\ UNCHANGED <<args, simvars, rngvars, thresholds, first_round, task_pc, my_thresholds,
                   task_drops, strategy_finish_counter, notified, results,
                   final_results>>

\* lines 148-151: break results
Halt ==
    /\ pc = "check"
    /\ IsSentinel(max_strategy, args)
    /\ final_results' = results
    /\ pc' = "done"
    /\ UNCHANGED <<args, simvars, rngvars, thresholds, first_round, task_pc, my_thresholds,
                   task_drops, strategy_finish_counter, notified, results,
                   max_strategy, max_drops>>

\* lines 153-161, then the head of the next loop iteration (lines 116-121)
ToggleStep ==
    /\ pc = "check"
    /\ ~IsSentinel(max_strategy, args)
    /\ thresholds' = Toggle(thresholds, max_strategy)
    /\ first_round' = FALSE
    /\ SweepStart(args)
    /\ pc' = "sweep"
    /\ UNCHANGED <<args, simvars, rngvars, max_strategy, max_drops, final_results>>

Next ==
    \/ \E i \in StrategyIndices(args) : RunTask(i)
    \/ \E i \in StrategyIndices(args) : FinishTask(i)
    \/ Collect
    \/ Select
    \/ Halt
    \/ ToggleStep

Spec == Init /\ [][Next]_vars

\* ------------------------------------- one sweep on the pool's threads
\* The parallel map runs its closure for each item on some worker thread of
\* the pool; a closure runs to its end on the thread that started it.
\* thread_rng() (line 24) hands the closure the generator of the thread it
\* runs on, which lives as long as the thread: a thread's next item goes on
\* drawing where its previous item stopped.
NoTask == 0 - 1
Workers == 1..NumWorkers
NoRng == [gen |-> 0, from |-> 0, to |-> 0]

\* one generator for the whole process
GeneratorOfProcess(w) == 1

\* line 24: thread_rng() is the generator of the calling thread
GeneratorOf(w) == w

RngInit ==
    /\ MainInit
    /\ worker_task = [w \in Workers |-> NoTask]
    /\ rng_drawn = [w \in Workers |-> 0]
    /\ task_rng = [i \in StrategyIndices(args) |-> NoRng]

\* an idle thread takes item i: lines 126-127, then the call of line 128 up
\* to thread_rng() of line 24
WorkerStart(w, i) ==
    /\ pc = "sweep"
    /\ worker_task[w] = NoTask
    /\ task_pc[i] = "idle"
    /\ worker_task' = [worker_task EXCEPT ![w] = i]
    /\ task_pc' = [task_pc EXCEPT ![i] = "running"]
    /\ my_thresholds' = [my_thresholds EXCEPT ![i] = CandidateThresholds(thresholds, i)]
    /\ task_rng' = [task_rng EXCEPT ![i] = [gen |-> GeneratorOf(w), from |-> 0, to |-> 0]]
    /\ UNCHANGED <<args, simvars, thresholds, first_round, pc, task_drops,
                   strategy_finish_counter, notified, results, max_strategy,
                   max_drops, final_results, rng_drawn>>

\* the thread runs the kill loop of its item (lines 26-59), drawing from the
\* generator it was handed, then lines 129-137
WorkerRun(w) ==
    /\ pc = "sweep"
    /\ worker_task[w] # NoTask
    /\ LET i == worker_task[w]
           g == task_rng[i].gen
           strat == XorInverseThresholds(my_thresholds[i])
           strategy_finish_counter_value == strategy_finish_counter
       IN  /\ task_pc[i] = "running"
           /\ \E rolls \in [1..args.sim_steps_per_strategy -> Rolls] :
                LET d == simulate_strategy(args, strat, rolls)
                    n == sim_draws(args, strat, rolls)
                IN  /\ task_drops' = [task_drops EXCEPT ![i] = d]
                    /\ rng_drawn' = [rng_drawn EXCEPT ![g] = @ + n]
                    /\ task_rng' = [task_rng EXCEPT ![i] =
                           [gen |-> g, from |-> rng_drawn[g], to |-> rng_drawn[g] + n]]
                    /\ results' = [results EXCEPT
                           ![ResultSlot(i, strategy_finish_counter_value)] = d]
           /\ strategy_finish_counter' = FetchAdd(strategy_finish_counter)
           /\ notified' = Append(notified, strategy_finish_counter_value + 1)
           /\ task_pc' = [task_pc EXCEPT ![i] = "done"]
    /\ worker_task' = [worker_task EXCEPT ![w] = NoTask]
    /\ UNCHANGED <<args, simvars, thresholds, first_round, pc, my_thresholds,
                   max_strategy, max_drops, final_results>>

RngNext ==
    \/ \E w \in Workers : \E i \in StrategyIndices(args) : WorkerStart(w, i)
    \/ \E w \in Workers : WorkerRun(w)
    \/ Collect

RngSpec == RngInit /\ [][RngNext]_vars

\* ------------------------------------------------ main under chosen rolls
\* The runs of main in which the generator happens to give candidate 0 a
\* drop on every kill and every other candidate at least one kill without a
\* drop.  Such rolls exist when a first kill is not a pity drop
\* (max_counter_value >= 2) and there is at least one kill.  Every step is a
\* step of Next; Halt is left out because it is never enabled in these runs.
ChosenRolls(i) ==
    IF i = 0 THEN task_drops'[i] = args.sim_steps_per_strategy
    ELSE task_drops'[i] < args.sim_steps_per_strategy

OscInit ==
    /\ Init
    /\ args.max_counter_value >= 2
    /\ args.sim_steps_per_strategy >= 1

OscNext ==
    \/ \E i \in StrategyIndices(args) : RunTask(i) /\ ChosenRolls(i)
    \/ \E i \in StrategyIndices(args) : FinishTask(i)
    \/ Collect
    \/ Select
    \/ ToggleStep

\* the threads of the process keep being scheduled
OscSpec == OscInit /\ [][OscNext]_vars /\ WF_vars(OscNext)

\* ---------------------------------------------------- claims on the search
Halted == pc = "done"
Selected == pc \in {"check", "done"}
SentinelIndex == args.max_counter_value

\* C4 (tie-break): the selected index holds a maximal drop count and no higher
\* index holds the same count; results [5,5,3] select index 1.
TieBreakHighestIndex ==
    /\ Selected =>
         /\ max_strategy \in DOMAIN results
         /\ max_drops = results[max_strategy]
         /\ \A j \in DOMAIN results : results[j] <= results[max_strategy]
         /\ \A j \in DOMAIN results :
              j > max_strategy => results[j] < results[max_strategy]
    /\ max_by_key([i \in 0..2 |-> <<5, 5, 3>>[i + 1]]) = 1

\* a selection among several maximal entries, below the sentinel
TieBreakWitness ==
    /\ pc = "check"
    /\ max_strategy < SentinelIndex
    /\ \E j \in DOMAIN results :
         j < max_strategy /\ results[j] = results[max_strategy]

\* C5 (sentinel halt): from the decision point the search halts iff the
\* selected index is max_counter_value; halting leaves thresholds as they
\* were and returns the results of the same round.
SentinelHalt ==
    [][pc = "check" =>
         /\ (pc' = "done") <=> (max_strategy = SentinelIndex)
         /\ (pc' = "done") => (thresholds' = thresholds /\ final_results' = results)
         /\ (pc' # "done") => thresholds' # thresholds]_vars

\* a halt in a later round, with thresholds committed
SentinelHaltWitness ==
    /\ Halted
    /\ ~first_round
    /\ Len(thresholds) >= 1
    /\ max_strategy = SentinelIndex
    /\ final_results = results

\* XorInverseThresholds read over a set of thresholds, as the text states it
XorInverseOverSet(S, c) == Cardinality({e \in S : c > e}) % 2 = 0
CounterValues == 0..(args.max_counter_value + 1)
Started(i) == task_pc[i] # "idle"

\* C6 as stated (candidate construction): the strategy simulated for candidate
\* t decides as XorInverseThresholds over the set thresholds \cup {t}.
CandidateIsSetUnion ==
    \A i \in DOMAIN task_pc : Started(i) =>
        \A c \in CounterValues :
            decide(XorInverseThresholds(my_thresholds[i]), c)
                = XorInverseOverSet(SeqToSet(thresholds) \cup {i}, c)

\* C6 amended: candidate t decides as XorInverseThresholds over
\* thresholds \cup {t} when t is not in thresholds, and over thresholds \ {t}
\* when it is (the pushed duplicate cancels the entry already there).
CandidateIsToggledSet ==
    \A i \in DOMAIN task_pc : Started(i) =>
        /\ my_thresholds[i] = Append(thresholds, i)
        /\ \A c \in CounterValues :
             decide(XorInverseThresholds(my_thresholds[i]), c)
                 = XorInverseOverSet(
                       IF i \in SeqToSet(thresholds)
                       THEN SeqToSet(thresholds) \ {i}
                       ELSE SeqToSet(thresholds) \cup {i}, c)

\* a simulated candidate whose index is already a threshold and whose decision
\* differs from the set union's at some counter value
CandidateWitness ==
    \E i \in DOMAIN task_pc :
        /\ task_pc[i] = "simulated"
        /\ i \in SeqToSet(thresholds)
        /\ \E c \in CounterValues :
             decide(XorInverseThresholds(my_thresholds[i]), c)
                 # XorInverseOverSet(SeqToSet(thresholds) \cup {i}, c)

\* C7 (toggle idempotence): toggling any index twice gives back the same set
\* of thresholds.
ToggleTwiceRestoresSet ==
    \A i \in StrategyIndices(args) :
        SeqToSet(Toggle(Toggle(thresholds, i), i)) = SeqToSet(thresholds)

\* after toggles, a collection whose first element toggled twice comes back
\* as the same set in another order
ToggleTwiceWitness ==
    /\ ~first_round
    /\ Len(thresholds) = 2
    /\ thresholds[1] \notin SeqToSet(Toggle(thresholds, thresholds[1]))
    /\ Toggle(Toggle(thresholds, thresholds[1]), thresholds[1]) # thresholds

\* C8 (index-ordered results): whatever the order in which the tasks finish,
\* the vector has one slot per candidate and slot i holds what candidate i's
\* simulation returned; after the collect no slot is empty.
IndexOrderedResults ==
    /\ DOMAIN results = StrategyIndices(args)
    /\ \A i \in DOMAIN task_pc :
         /\ task_pc[i] = "done" => results[i] = task_drops[i]
         /\ task_pc[i] # "done" => results[i] = NoResult
         /\ Started(i) => task_drops[i] \in 0..args.sim_steps_per_strategy
    /\ pc # "sweep" =>
         \A i \in DOMAIN results : results[i] = task_drops[i] /\ results[i] >= 0

\* the last candidate finished first, with a count other than candidate 0's
IndexOrderedWitness ==
    /\ pc = "sweep"
    /\ args.max_counter_value = 2
    /\ task_pc[2] = "done" /\ task_pc[1] = "idle" /\ task_pc[0] = "simulated"
    /\ strategy_finish_counter = 1
    /\ results[2] = 1 /\ task_drops[0] = 0

\* C9 (round barrier): selection, halt test and toggle happen only when every
\* task of the sweep is done; a task starts only during a sweep, on the
\* thresholds of its own round, and thresholds change only between sweeps.
RoundBarrier ==
    /\ [](pc # "sweep" => \A i \in DOMAIN task_pc : task_pc[i] = "done")
    /\ [](\A i \in DOMAIN task_pc :
            Started(i) => my_thresholds[i] = Append(thresholds, i))
    /\ [][(\E i \in DOMAIN task_pc : task_pc[i] = "idle" /\ task_pc'[i] # "idle")
            => (pc = "sweep" /\ pc' = "sweep" /\ thresholds' = thresholds)]_vars
    /\ [][thresholds' # thresholds
            => /\ pc = "check"
               /\ \A i \in DOMAIN task_pc : task_pc[i] = "done" /\ task_pc'[i] = "idle"]_vars

\* a second-round task running on the thresholds the first round committed
RoundBarrierWitness ==
    /\ pc = "sweep"
    /\ ~first_round
    /\ Len(thresholds) = 1
    /\ \E i \in DOMAIN task_pc : task_pc[i] = "simulated"
    /\ \E i \in DOMAIN task_pc : task_pc[i] = "idle"

Flat(res) == \A i, j \in DOMAIN res : res[i] = res[j]

\* C10 (flat objective): when every candidate of a sweep has the same drop
\* count the sentinel index is selected and the search halts in that round
\* with thresholds unchanged; in the first round that is the empty collection.
FlatConvergence ==
    [][(pc = "check" /\ Flat(results)) =>
         /\ max_strategy = SentinelIndex
         /\ pc' = "done"
         /\ thresholds' = thresholds
         /\ final_results' = results
         /\ (first_round => thresholds' = <<>>)]_vars

\* a first sweep of three equal non-zero counts that halted
FlatConvergenceWitness ==
    /\ Halted
    /\ first_round
    /\ args.max_counter_value = 2
    /\ Flat(final_results)
    /\ final_results[0] = 1
    /\ thresholds = <<>>

\* what holds of the counter and the progress lines inside one sweep
NumDone == Cardinality({i \in DOMAIN task_pc : task_pc[i] = "done"})
NotifiedOnce ==
    /\ strategy_finish_counter = NumDone
    /\ Len(notified) = strategy_finish_counter
    /\ \A k \in 1..num_strategies(args) :
         Cardinality({p \in 1..Len(notified) : notified[p] = k})
             = IF k <= strategy_finish_counter THEN 1 ELSE 0
    /\ pc # "sweep" => SeqToSet(notified) = 1..num_strategies(args)

\* C13 as stated (completion counter): the counter never decreases at any
\* point of the run, across sweeps as well as within one, and within a sweep
\* the notifications carry each k in 1..N exactly once.
CompletionCounterProcessWide ==
    /\ []NotifiedOnce
    /\ [][strategy_finish_counter' >= strategy_finish_counter]_vars

\* C13 amended: the counter is created at 0 for each sweep; within a sweep it
\* never decreases and is incremented exactly once per completed simulation,
\* so the notifications of a sweep carry each k in 1..N exactly once; it
\* goes back to 0 only when the next sweep starts.
CompletionCounterPerSweep ==
    /\ []NotifiedOnce
    /\ [][\/ strategy_finish_counter' = strategy_finish_counter
          \/ /\ strategy_finish_counter' = strategy_finish_counter + 1
             /\ \E i \in DOMAIN task_pc : task_pc[i] # "done" /\ task_pc'[i] = "done"
          \/ /\ pc = "check" /\ pc' = "sweep"
             /\ strategy_finish_counter = num_strategies(args)
             /\ strategy_finish_counter' = 0]_vars

\* the second sweep counting again from 1
CompletionCounterWitness ==
    /\ ~first_round
    /\ pc = "sweep"
    /\ args.max_counter_value = 2
    /\ strategy_finish_counter = 2
    /\ notified = <<1, 2>>
    /\ task_pc[0] = "idle"

AtSweepStart == pc = "sweep" /\ \A i \in DOMAIN task_pc : task_pc[i] = "idle"

\* C17 (ineffective sentinel): for max_counter_value M >= 1 the candidate
\* with M appended decides as XorInverseThresholds(thresholds) at every counter
\* value a simulation asks about (0..M-1), and with the same rolls its
\* simulation returns the same drop count as the committed strategy's.
IneffectiveSentinel ==
    args.max_counter_value >= 1 =>
        LET sentinel == XorInverseThresholds(CandidateThresholds(thresholds, SentinelIndex))
            committed == XorInverseThresholds(thresholds)
        IN  /\ \A c \in 0..(args.max_counter_value - 1) :
                 decide(sentinel, c) = decide(committed, c)
            /\ AtSweepStart =>
                 \A rolls \in [1..args.sim_steps_per_strategy -> Rolls] :
                     simulate_strategy(args, sentinel, rolls)
                         = simulate_strategy(args, committed, rolls)
            /\ Started(SentinelIndex) =>
                 my_thresholds[SentinelIndex] = CandidateThresholds(thresholds, SentinelIndex)

\* the sentinel candidate simulated on top of committed thresholds
IneffectiveSentinelWitness ==
    /\ args.max_counter_value = 2
    /\ Len(thresholds) = 2
    /\ task_pc[2] = "simulated"
    /\ my_thresholds[2] = Append(thresholds, 2)
    /\ task_drops[2] = 1

\* C18 (threshold collection): thresholds never holds a value twice, holds
\* only values in 0..max_counter_value-1, and so is never longer than
\* max_counter_value.
ThresholdsWellFormed ==
    /\ \A p, q \in 1..Len(thresholds) : thresholds[p] = thresholds[q] => p = q
    /\ \A p \in 1..Len(thresholds) :
         thresholds[p] \in 0..(args.max_counter_value - 1)
    /\ Len(thresholds) <= args.max_counter_value

\* every non-sentinel index committed, the later one first
ThresholdsWellFormedWitness ==
    /\ args.max_counter_value = 2
    /\ thresholds = <<1, 0>>
    /\ pc = "done"

SameDecisions(ts1, ts2) ==
    \A c \in CounterValues :
        decide(XorInverseThresholds(ts1), c) = decide(XorInverseThresholds(ts2), c)

\* C20 (scored equals committed): for every non-sentinel index t the
\* candidate simulated for t decides at every counter value as
\* XorInverseThresholds over thresholds with t toggled; the candidate that
\* won a round decides as the strategy the toggle then commits.
ScoredEqualsCommitted ==
    /\ AtSweepStart =>
         \A t \in 0..(args.max_counter_value - 1) :
             SameDecisions(CandidateThresholds(thresholds, t), Toggle(thresholds, t))
    /\ \A t \in DOMAIN task_pc :
         (Started(t) /\ t # SentinelIndex) =>
             SameDecisions(my_thresholds[t], Toggle(thresholds, t))
    /\ (pc = "check" /\ ~IsSentinel(max_strategy, args)) =>
         SameDecisions(my_thresholds[max_strategy], Toggle(thresholds, max_strategy))

\* the winner of a round is an index already committed: scored with the
\* index twice, committed with the index removed
ScoredEqualsCommittedWitness ==
    /\ pc = "check"
    /\ Len(thresholds) = 2
    /\ max_strategy = thresholds[1]
    /\ my_thresholds[max_strategy] = Append(thresholds, max_strategy)
    /\ Len(Toggle(thresholds, max_strategy)) = 1

\* C16 (unbounded loop): nothing caps the number of rounds; in the runs where
\* index 0 is the selected maximum of every round the sentinel is never
\* selected, the search never halts, and thresholds goes on alternating
\* between containing 0 and not containing it.
NeverHalts ==
    /\ [](pc # "done")
    /\ [](pc = "check" => (max_strategy = 0 /\ max_strategy # SentinelIndex))
    /\ []<>(pc = "check" /\ 0 \in SeqToSet(thresholds))
    /\ []<>(pc = "check" /\ 0 \notin SeqToSet(thresholds))

\* the third round selecting index 0 again, after it was inserted and removed
NeverHaltsWitness ==
    /\ ~first_round
    /\ thresholds = <<>>
    /\ pc = "check"
    /\ max_strategy = 0

HasRng(i) == task_rng[i] # NoRng
Drew(i) == task_rng[i].from < task_rng[i].to

====
